---- MODULE Spec2Model ----
(***************************************************************************)
(* A model of sanhe_devops_tools/config_lib.py: the Field classes, the     *)
(* ConfigMeta field registry, and the BaseConfigClass operations.          *)
(*                                                                         *)
(* Field objects are identified by their _creation_index.  A class is a    *)
(* record [parent, attrs, declared]: attrs is the class body's __dict__    *)
(* (name -> Field object), declared is _declared_fields, an OrderedDict    *)
(* kept as a sequence of <<name, field>> pairs.                            *)
(***************************************************************************)
EXTENDS Integers, Sequences, FiniteSets, TLC

VARIABLES
    classes,          \* SpecRegistry: the classes created so far by ConfigMeta
    creation_index,   \* SpecRegistry: Field._creation_index, the class-level counter
    value,            \* Spec: Field.value of every Field object of the schema
    config_object,    \* Spec: Field._config_object of every Field object
    objects,          \* Spec: the class of every config object constructed so far
    instances,        \* Spec: the config objects whose construction returned
    last,             \* Spec: the last call made and what it returned or raised
    cf_dict,          \* SpecCamel: what self.to_dict() returns, as <<key, value>> pairs
    cf_data,          \* SpecCamel: what to_cloudformation_config_data returned or raised
    strip_text,       \* SpecStrip: the JSON text, without and with its comments
    strip_result,     \* SpecStrip: what strip_comments returned
    config_dir,       \* SpecDump: the CONFIG_DIR attribute of the config classes
    files,            \* SpecDump: the files of the file system and their contents
    inject_args,      \* SpecInject: the text and data passed to inject_variable
    inject_result,    \* SpecInject: what inject_variable returned or raised
    path_args,        \* SpecPath: the document and the path passed to get_json_value
    path_result       \* SpecPath: what get_json_value returned or raised

regVars == <<classes, creation_index>>
cfgVars == <<value, config_object, objects, instances, last>>
cfVars == <<cf_dict, cf_data>>
stripVars == <<strip_text, strip_result>>
dumpVars == <<config_dir, files>>
injectVars == <<inject_args, inject_result>>
pathVars == <<path_args, path_result>>
toolVars == <<stripVars, dumpVars, injectVars, pathVars>>
vars == <<classes, creation_index, value, config_object, objects, instances, last,
          cf_dict, cf_data, strip_text, strip_result, config_dir, files,
          inject_args, inject_result, path_args, path_result>>

\* The variables of a specification that does not use them.
StripIdle == strip_text = <<>> /\ strip_result = <<>>
DumpIdle == config_dir = <<>> /\ files = <<>>
InjectIdle == inject_args = <<>> /\ inject_result = <<>>
PathIdle == path_args = <<>> /\ path_result = <<>>
ToolsIdle == StripIdle /\ DumpIdle /\ InjectIdle /\ PathIdle

(***************************************************************************)
(* Helpers on sequences of <<name, field>> pairs.                          *)
(***************************************************************************)
Range(s) == {s[i] : i \in DOMAIN s}

PairNames(pairs) == [i \in DOMAIN pairs |-> pairs[i][1]]

\* All orders in which a dict with the given items can be iterated.
ItemOrders(d) ==
    {s \in [1..Cardinality(DOMAIN d) -> DOMAIN d] :
        \A i, j \in DOMAIN s : i # j => s[i] # s[j]}

RECURSIVE InsertSorted(_, _)
InsertSorted(p, sorted) ==
    IF sorted = <<>> THEN <<p>>
    ELSE IF p[2] < Head(sorted)[2] THEN <<p>> \o sorted
    ELSE <<Head(sorted)>> \o InsertSorted(p, Tail(sorted))

RECURSIVE SortByCreationIndex(_)
SortByCreationIndex(pairs) ==
    IF pairs = <<>> THEN <<>>
    ELSE InsertSorted(Head(pairs), SortByCreationIndex(Tail(pairs)))

\* A class attribute that is not a Field (a getter method, a constant, ...).
NotAField == -1

is_instance_or_subclass(val) == val # NotAField

SelectFields(pairs) == SelectSeq(pairs, LAMBDA p : is_instance_or_subclass(p[2]))

\* _get_fields without the sort: the items in dict order.
get_fields_unsorted(items, ordered) == SelectFields(items)

\* _get_fields(attrs, Field, ordered): items is attrs.items() in iteration order.
get_fields(items, ordered) ==
    IF ordered THEN SortByCreationIndex(SelectFields(items))
    ELSE SelectFields(items)

\* OrderedDict(pairs): a later pair for a name already present updates the
\* value and keeps the position.
RECURSIVE OrderedDict_from(_, _)
OrderedDict_from(pairs, acc) ==
    IF pairs = <<>> THEN acc
    ELSE LET p == Head(pairs)
             hit == {i \in DOMAIN acc : acc[i][1] = p[1]}
         IN  OrderedDict_from(Tail(pairs),
                 IF hit = {} THEN Append(acc, p)
                 ELSE [i \in DOMAIN acc |-> IF i \in hit THEN p ELSE acc[i]])

OrderedDict(pairs) == OrderedDict_from(pairs, <<>>)

\* inspect.getmro(klass)[1:], nearest ancestor first, for single inheritance.
\* Class 0 is ConfigClass; BaseConfigClass and object above it hold no Field.
RECURSIVE Ancestors(_, _)
Ancestors(cls, parent) ==
    IF parent = 0 THEN <<0>> ELSE <<parent>> \o Ancestors(cls, cls[parent].parent)

Reverse(s) == [i \in DOMAIN s |-> s[Len(s) + 1 - i]]

RECURSIVE SumFields(_, _)
SumFields(cls, bases) ==
    IF bases = <<>> THEN <<>>
    ELSE get_fields(cls[Head(bases)].declared, TRUE) \o SumFields(cls, Tail(bases))

\* _get_fields_by_mro(klass, Field, ordered=True): the bases in reverse mro.
get_fields_by_mro(cls, parent) == SumFields(cls, Reverse(Ancestors(cls, parent)))

\* ConfigMeta.__new__: the _declared_fields of a class with the given body.
ConfigMeta_declared(cls, parent, items) ==
    LET cls_fields == get_fields(items, TRUE)
        inherited_fields == get_fields_by_mro(cls, parent)
    IN  OrderedDict(inherited_fields \o cls_fields)

(***************************************************************************)
(* SpecRegistry: classes are defined one after another; each class body    *)
(* creates its Field objects (taking creation indexes) and ConfigMeta      *)
(* builds the registry.                                                    *)
(***************************************************************************)
MaxClasses == 3
FieldNames == {"a", "x", "b"}

\* A class body: the names it declares, in the order their Field() calls ran.
\* A body declares some but not all of FieldNames.
Bodies ==
    UNION {{s \in [1..n -> FieldNames] : \A i, j \in 1..n : i # j => s[i] # s[j]}
            : n \in 0..(Cardinality(FieldNames) - 1)}

ConfigClass == [parent |-> 0, attrs |-> <<>>, declared |-> <<>>]

\* The class body `body` (names in the order their Field() calls ran).
BodyAttrs(body, first) == [i \in DOMAIN body |-> <<body[i], first + i - 1>>]

InitRegistry ==
    /\ classes = [k \in {0} |-> ConfigClass]
    /\ creation_index = 0
    /\ value = <<>> /\ config_object = <<>> /\ objects = <<>>
    /\ instances = {} /\ last = <<>>
    /\ cf_dict = <<>> /\ cf_data = <<>>
    /\ ToolsIdle

DefineClass(parent, body, order) ==
    /\ Cardinality(DOMAIN classes) <= MaxClasses
    /\ LET k == Cardinality(DOMAIN classes)
           attrs == BodyAttrs(body, creation_index)
           items == [i \in DOMAIN order |-> attrs[order[i]]]
           klass == [parent |-> parent,
                     attrs |-> attrs,
                     declared |-> ConfigMeta_declared(classes, parent, items)]
       IN  classes' = [c \in DOMAIN classes \cup {k} |->
                          IF c = k THEN klass ELSE classes[c]]
    /\ creation_index' = creation_index + Len(body)
    /\ UNCHANGED <<cfgVars, cfVars, toolVars>>

NextRegistry ==
    \E parent \in DOMAIN classes, body \in Bodies :
        \E order \in ItemOrders(body) : DefineClass(parent, body, order)

SpecRegistry == InitRegistry /\ [][NextRegistry]_vars

(***************************************************************************)
(* C4.  The registry order, stated from the class bodies alone.            *)
(***************************************************************************)
OwnNames(cls, k) == PairNames(cls[k].attrs)

\* Ancestor-declared names in their original order, then the names newly
\* declared on the class, in creation order.
RECURSIVE ExpectedNames(_, _)
ExpectedNames(cls, k) ==
    IF k = 0 THEN <<>>
    ELSE LET inherited == ExpectedNames(cls, cls[k].parent)
         IN  inherited \o
             SelectSeq(OwnNames(cls, k), LAMBDA n : n \notin Range(inherited))

\* The Field object a name resolves to: the most-derived declaration.
RECURSIVE ExpectedField(_, _, _)
ExpectedField(cls, k, name) ==
    LET own == {i \in DOMAIN cls[k].attrs : cls[k].attrs[i][1] = name}
    IN  IF own # {} THEN cls[k].attrs[CHOOSE i \in own : TRUE][2]
        ELSE ExpectedField(cls, cls[k].parent, name)

RegistryOrderOf(k) ==
    LET declared == classes[k].declared
    IN  /\ PairNames(declared) = ExpectedNames(classes, k)
        /\ \A i \in DOMAIN declared :
              declared[i][2] = ExpectedField(classes, k, declared[i][1])
        /\ \A i, j \in DOMAIN declared :
              i # j => declared[i][1] # declared[j][1]

\* C4: in every class, at every inheritance depth, _declared_fields lists the
\* ancestors' names in their original order (most-base class first, creation
\* order within a body), then the names new to the class in creation order;
\* a re-declared name keeps the ancestor's position, maps to the subclass's
\* Field object, and names are unique.
C4_RegistryOrder == \A k \in DOMAIN classes : RegistryOrderOf(k)

\* A grandchild whose parent re-declares a grandparent's name and adds a new
\* one, and which itself re-declares a name and adds a new one.
C4_Witness ==
    \E k \in DOMAIN classes :
        LET p == classes[k].parent
            g == classes[p].parent
        IN  /\ k # 0 /\ p # 0 /\ g # 0
            /\ Range(OwnNames(classes, p)) \cap Range(OwnNames(classes, g)) # {}
            /\ Range(OwnNames(classes, p)) \ Range(OwnNames(classes, g)) # {}
            /\ Range(OwnNames(classes, k)) \cap
                   Range(PairNames(classes[p].declared)) # {}
            /\ Range(OwnNames(classes, k)) \
                   Range(PairNames(classes[p].declared)) # {}
            /\ RegistryOrderOf(k)

(***************************************************************************)
(* The schema of Spec: two classes declared in this order.                 *)
(*                                                                         *)
(*   class Config(ConfigClass):                                            *)
(*       project = Constant()               # validator: value is not None *)
(*       secret  = Constant(value="a", dont_dump=True, printable=False)    *)
(*       env     = Derivable(printable=False)                              *)
(*                 # getter: return self.project.get_value()               *)
(*                 # validator: value is not the string \"#                *)
(*   class SubConfig(Config):                                              *)
(*       project = Constant(default="a")                                   *)
(*       token   = Derivable(dont_dump=True)                               *)
(*                 # getter: return self.secret.get_value()                *)
(*                                                                         *)
(* A value is a string, kept as a sequence of characters, or None.         *)
(***************************************************************************)
None == <<"None">>
StrA == <<"a">>
StrTricky == <<"\\", "\"", "#">>
Values == {None, StrA, StrTricky}
HIDDEN == <<"***HIDDEN***">>

NoObject == 0

\* Field.__init__: the value a new Field holds.  The assignment of `default`
\* is overwritten by the unconditional assignment of `value` that follows it.
Field_init_value(value_arg, default) ==
    LET v1 == IF value_arg = None THEN default ELSE None
    IN  value_arg

\* A Field object as its declaration leaves it; value_arg and default keep
\* the arguments the declaration passed.
NewField(name, kind, value_arg, default, dont_dump, printable, getter, validator) ==
    [name |-> name, kind |-> kind,
     value_arg |-> value_arg, default |-> default,
     value |-> Field_init_value(value_arg, default),
     dont_dump |-> dont_dump, printable |-> printable,
     getter |-> getter, validator |-> validator]

FieldTable ==
    [f \in 0..4 |->
        CASE f = 0 -> NewField("project", "Constant", None, None, FALSE, TRUE,
                               "", "required")
          [] f = 1 -> NewField("secret", "Constant", StrA, None, TRUE, FALSE,
                               "", "default")
          [] f = 2 -> NewField("env", "Derivable", None, None, FALSE, FALSE,
                               "project", "plain")
          [] f = 3 -> NewField("project", "Constant", None, StrA, FALSE, TRUE,
                               "", "default")
          [] f = 4 -> NewField("token", "Derivable", None, None, TRUE, TRUE,
                               "secret", "default")]

Fields == DOMAIN FieldTable

ConfigBody ==
    << <<"project", 0>>, <<"check_project", NotAField>>, <<"secret", 1>>,
       <<"env", 2>>, <<"get_env", NotAField>>, <<"check_env", NotAField>> >>

SubConfigBody ==
    << <<"project", 3>>, <<"token", 4>>, <<"get_token", NotAField>> >>

Config == 1
SubConfig == 2

Schema ==
    LET c0 == [k \in {0} |-> ConfigClass]
        k1 == [parent |-> 0, attrs |-> ConfigBody,
               declared |-> ConfigMeta_declared(c0, 0, ConfigBody)]
        c1 == [k \in {0, Config} |-> IF k = Config THEN k1 ELSE c0[k]]
        k2 == [parent |-> Config, attrs |-> SubConfigBody,
               declared |-> ConfigMeta_declared(c1, Config, SubConfigBody)]
    IN  [k \in {0, Config, SubConfig} |-> IF k = SubConfig THEN k2 ELSE c1[k]]

SchemaClasses == {Config, SubConfig}

\* ConfigMeta.__new__: the three views of a class's registry.
declared_fields(cls) == Schema[cls].declared

constant_fields(cls) ==
    SelectSeq(declared_fields(cls), LAMBDA p : FieldTable[p[2]].kind = "Constant")

deriable_fields(cls) ==
    SelectSeq(declared_fields(cls), LAMBDA p : FieldTable[p[2]].kind = "Derivable")

\* d[name] for an OrderedDict kept as pairs.
Lookup(pairs, name) ==
    pairs[CHOOSE i \in DOMAIN pairs : pairs[i][1] = name][2]

Keys == {"project", "secret", "env", "token"}

EmptyDict == [k \in {} |-> None]
DictSet(d, k, v) == [x \in DOMAIN d \cup {k} |-> IF x = k THEN v ELSE d[x]]

(***************************************************************************)
(* The heap: the Field objects' mutable attributes and the config objects. *)
(* Operations take a heap and return the heap they leave, with the error   *)
(* raised ("none" when the call returns).                                  *)
(***************************************************************************)
Heap == [value |-> value, config_object |-> config_object, objects |-> objects]

Ok(h) == [h |-> h, err |-> "none"]
Raise(h, e) == [h |-> h, err |-> e]

\* Constant.set_value
Constant_set_value(h, f, v) == Ok([h EXCEPT !.value[f] = v])

\* Field.set_value storing the value, as Constant.set_value does.
Field_set_value_stores(h, f, v) == Ok([h EXCEPT !.value[f] = v])

\* Field.set_value, which Derivable inherits
Field_set_value(h, f, v) == Raise(h, "DeriableSetValueError")

\* field.set_value(v), dispatched on the field's class
set_value(h, f, v) ==
    IF FieldTable[f].kind = "Constant" THEN Constant_set_value(h, f, v)
    ELSE Field_set_value(h, f, v)

RECURSIVE get_value(_, _, _, _)

\* The getter registered on a Derivable: return self.<getter>.get_value(),
\* the attribute looked up on the class of the object it is called with.
getter_method(h, f, self) ==
    get_value(h, Lookup(declared_fields(h.objects[self]), FieldTable[f].getter),
              FALSE, FALSE)

\* get_value without the dont_dump test.
get_value_dumps_all(h, f, check_dont_dump, check_printable) ==
    IF h.config_object[f] = NoObject THEN [err |-> "AttributeError", val |-> None]
    ELSE IF check_printable /\ ~FieldTable[f].printable
         THEN [err |-> "none", val |-> HIDDEN]
    ELSE IF FieldTable[f].getter = ""
         THEN [err |-> "none", val |-> h.value[f]]
    ELSE getter_method(h, f, h.config_object[f])

\* get_value testing printable only for a field without a getter.
get_value_hides_constants_only(h, f, check_dont_dump, check_printable) ==
    IF h.config_object[f] = NoObject THEN [err |-> "AttributeError", val |-> None]
    ELSE IF check_dont_dump /\ FieldTable[f].dont_dump
         THEN [err |-> "DontDumpError", val |-> None]
    ELSE IF FieldTable[f].getter = ""
         THEN IF check_printable /\ ~FieldTable[f].printable
              THEN [err |-> "none", val |-> HIDDEN]
              ELSE [err |-> "none", val |-> h.value[f]]
    ELSE getter_method(h, f, h.config_object[f])

\* Field.get_value(check_dont_dump, check_printable)
get_value(h, f, check_dont_dump, check_printable) ==
    IF h.config_object[f] = NoObject THEN [err |-> "AttributeError", val |-> None]
    ELSE IF check_dont_dump /\ FieldTable[f].dont_dump
         THEN [err |-> "DontDumpError", val |-> None]
    ELSE IF check_printable /\ ~FieldTable[f].printable
         THEN [err |-> "none", val |-> HIDDEN]
    ELSE IF FieldTable[f].getter = ""
         THEN [err |-> "none", val |-> h.value[f]]
    ELSE getter_method(h, f, h.config_object[f])

\* The validators registered on the schema's fields; a Field starts with one
\* that accepts everything.
validate_method(f, self_arg, v) ==
    CASE FieldTable[f].validator = "required" ->
            IF v = None THEN "ValueError" ELSE "none"
      [] FieldTable[f].validator = "plain" ->
            IF v = StrTricky THEN "ValueError" ELSE "none"
      [] OTHER -> "none"

\* BaseConfigClass.__init__, the loop over _declared_fields
RECURSIVE init_loop(_, _, _, _)
init_loop(h, self, fields, kwargs) ==
    IF fields = <<>> THEN Ok(h)
    ELSE LET name == Head(fields)[1]
             f == Head(fields)[2]
             r == IF name \in DOMAIN kwargs THEN set_value(h, f, kwargs[name])
                  ELSE Ok(h)
         IN  IF r.err # "none" THEN r
             ELSE init_loop([r.h EXCEPT !.config_object[f] = self],
                            self, Tail(fields), kwargs)

\* cls(**kwargs): the new object and BaseConfigClass.__init__ on it
BaseConfigClass_init(h, cls, kwargs) ==
    LET self == Len(h.objects) + 1
        r == init_loop([h EXCEPT !.objects = Append(@, cls)],
                       self, declared_fields(cls), kwargs)
    IN  [h |-> r.h, err |-> r.err, obj |-> self]

\* The update loop testing the key against _declared_fields.
RECURSIVE update_loop_declared(_, _, _, _)
update_loop_declared(h, cls, dct, keys) ==
    IF keys = {} THEN Ok(h)
    ELSE LET key == CHOOSE k \in keys : TRUE
             isField == \E i \in DOMAIN declared_fields(cls) :
                            declared_fields(cls)[i][1] = key
             r == IF isField
                  THEN set_value(h, Lookup(declared_fields(cls), key), dct[key])
                  ELSE Ok(h)
         IN  IF r.err # "none" THEN r
             ELSE update_loop_declared(r.h, cls, dct, keys \ {key})

\* BaseConfigClass.update, the loop over dct.items()
RECURSIVE update_loop(_, _, _, _)
update_loop(h, cls, dct, keys) ==
    IF keys = {} THEN Ok(h)
    ELSE LET key == CHOOSE k \in keys : TRUE
             isConst == \E i \in DOMAIN constant_fields(cls) :
                            constant_fields(cls)[i][1] = key
             r == IF isConst
                  THEN set_value(h, Lookup(constant_fields(cls), key), dct[key])
                  ELSE Ok(h)
         IN  IF r.err # "none" THEN r
             ELSE update_loop(r.h, cls, dct, keys \ {key})

update(h, self, dct) == update_loop(h, h.objects[self], dct, DOMAIN dct)

\* BaseConfigClass.from_dict
from_dict(h, cls, dct) ==
    LET c == BaseConfigClass_init(h, cls, EmptyDict)
    IN  IF c.err # "none" THEN c
        ELSE LET u == update_loop(c.h, cls, dct, DOMAIN dct)
             IN  [h |-> u.h, err |-> u.err, obj |-> c.obj]

\* BaseConfigClass.to_dict, the loop over _declared_fields
RECURSIVE to_dict_loop(_, _, _, _, _)
to_dict_loop(h, fields, check_dont_dump, check_printable, dct) ==
    IF fields = <<>> THEN [err |-> "none", dct |-> dct]
    ELSE LET g == get_value(h, Head(fields)[2], check_dont_dump, check_printable)
         IN  IF g.err = "DontDumpError"
             THEN to_dict_loop(h, Tail(fields), check_dont_dump, check_printable, dct)
             ELSE IF g.err # "none" THEN [err |-> g.err, dct |-> <<>>]
             ELSE to_dict_loop(h, Tail(fields), check_dont_dump, check_printable,
                               Append(dct, <<Head(fields)[1], g.val>>))

\* The result is the OrderedDict, kept as <<name, value>> pairs.
to_dict(h, self, check_dont_dump, check_printable) ==
    to_dict_loop(h, declared_fields(h.objects[self]),
                 check_dont_dump, check_printable, <<>>)

\* An OrderedDict read as a mapping.
DictOf(pairs) == [k \in Range(PairNames(pairs)) |-> Lookup(pairs, k)]

\* The first argument a validate() passes to the validator: the Field itself.
FieldArg(f) == [kind |-> "field", id |-> f]
ObjectArg(o) == [kind |-> "object", id |-> o]

\* Constant.validate()
Constant_validate(h, f) ==
    LET g == get_value(h, f, FALSE, FALSE)
    IN  IF g.err # "none" THEN [err |-> g.err, calls |-> <<>>]
        ELSE [err |-> validate_method(f, FieldArg(f), g.val),
              calls |-> <<[field |-> f, self_arg |-> FieldArg(f), value |-> g.val]>>]

\* Derivable.validate(config_instance): the instance lands in get_value's
\* first positional parameter, check_dont_dump, and an object is truthy.
Derivable_validate(h, f, config_instance) ==
    LET g == get_value(h, f, config_instance # NoObject, FALSE)
    IN  IF g.err # "none" THEN [err |-> g.err, calls |-> <<>>]
        ELSE [err |-> validate_method(f, FieldArg(f), g.val),
              calls |-> <<[field |-> f, self_arg |-> FieldArg(f), value |-> g.val]>>]

\* BaseConfigClass.validate, its two loops as one over the fields in call order
RECURSIVE validate_loop(_, _, _, _)
validate_loop(h, self, fields, calls) ==
    IF fields = <<>> THEN [err |-> "none", calls |-> calls]
    ELSE LET f == Head(fields)[2]
             r == IF FieldTable[f].kind = "Constant" THEN Constant_validate(h, f)
                  ELSE Derivable_validate(h, f, self)
         IN  IF r.err # "none" THEN [err |-> r.err, calls |-> calls \o r.calls]
             ELSE validate_loop(h, self, Tail(fields), calls \o r.calls)

validate(h, self) ==
    validate_loop(h, self,
                  constant_fields(h.objects[self]) \o deriable_fields(h.objects[self]),
                  <<>>)

(***************************************************************************)
(* JSON text.  A text is a sequence of lines, a line a sequence of         *)
(* characters; json.dumps escapes every line break inside a string, so     *)
(* splitlines() and "\n".join() are the identity on the line sequence.     *)
(***************************************************************************)
Quote == "\""
Backslash == "\\"
Space == " "

Chars(name) ==
    CASE name = "project" -> <<"p", "r", "o", "j", "e", "c", "t">>
      [] name = "secret" -> <<"s", "e", "c", "r", "e", "t">>
      [] name = "env" -> <<"e", "n", "v">>
      [] name = "token" -> <<"t", "o", "k", "e", "n">>

NameOf(chars) ==
    IF \E k \in Keys : Chars(k) = chars
    THEN CHOOSE k \in Keys : Chars(k) = chars
    ELSE "?"

\* json's string escaping of the characters of the model's alphabet
RECURSIVE EscapeChars(_)
EscapeChars(cs) ==
    IF cs = <<>> THEN <<>>
    ELSE (IF Head(cs) \in {Quote, Backslash} THEN <<Backslash, Head(cs)>>
          ELSE <<Head(cs)>>) \o EscapeChars(Tail(cs))

EncodeString(cs) == <<Quote>> \o EscapeChars(cs) \o <<Quote>>

EncodeValue(v) ==
    IF v = None THEN <<"n", "u", "l", "l">> ELSE EncodeString(v)

\* json.dumps(dct, indent=4, sort_keys=False) of a flat dict
json_dumps_indent4(pairs) ==
    IF pairs = <<>> THEN << <<"{", "}">> >>
    ELSE << <<"{">> >> \o
         [i \in DOMAIN pairs |->
             <<Space, Space, Space, Space>> \o EncodeString(Chars(pairs[i][1]))
             \o <<":", Space>> \o EncodeValue(pairs[i][2])
             \o (IF i < Len(pairs) THEN <<",">> ELSE <<>>)]
         \o << <<"}">> >>

\* BaseConfigClass.to_json
to_json(h, self, check_dont_dump, check_printable) ==
    LET d == to_dict(h, self, check_dont_dump, check_printable)
    IN  IF d.err # "none" THEN [err |-> d.err, text |-> <<>>]
        ELSE [err |-> "none", text |-> json_dumps_indent4(d.dct)]

\* str.startswith at position i
StartsAt(line, i, sym) ==
    /\ i + Len(sym) - 1 <= Len(line)
    /\ \A j \in DOMAIN sym : line[i + j - 1] = sym[j]

\* line.split(start)
RECURSIVE SplitFrom(_, _, _, _)
SplitFrom(line, sym, i, part) ==
    IF i > Len(line) THEN <<part>>
    ELSE IF StartsAt(line, i, sym)
         THEN <<part>> \o SplitFrom(line, sym, i + Len(sym), <<>>)
         ELSE SplitFrom(line, sym, i + 1, Append(part, line[i]))

Split(line, sym) == SplitFrom(line, sym, 1, <<>>)

\* start.join(parts)
RECURSIVE Join(_, _)
Join(parts, sym) ==
    IF Len(parts) = 0 THEN <<>>
    ELSE IF Len(parts) = 1 THEN parts[1]
    ELSE parts[1] \o sym \o Join(Tail(parts), sym)

RECURSIVE rstrip(_)
rstrip(line) ==
    IF line # <<>> /\ line[Len(line)] = Space
    THEN rstrip(SubSeq(line, 1, Len(line) - 1))
    ELSE line

\* The end of the maximal run of (?:\\\\|\\")+ pairs starting at i.
RECURSIVE PairsEnd(_, _)
PairsEnd(part, i) ==
    IF /\ i + 1 <= Len(part)
       /\ part[i] = Backslash
       /\ part[i + 1] \in {Backslash, Quote}
    THEN PairsEnd(part, i + 2)
    ELSE i

\* Where a match of (?:^|[^"\\]|(?:\\\\|\\")+)(") that starts at i ends
\* (the position after its quote), 0 when none starts at i.
MatchEnd(part, i) ==
    IF i = 1 /\ part[1] = Quote THEN 2
    ELSE IF /\ part[i] \notin {Quote, Backslash}
            /\ i + 1 <= Len(part)
            /\ part[i + 1] = Quote
         THEN i + 2
    ELSE LET e == PairsEnd(part, i)
         IN  IF e > i /\ e <= Len(part) /\ part[e] = Quote THEN e + 1 ELSE 0

\* len(re.findall(pattern, part)): the non-overlapping matches, left to right
RECURSIVE CountFrom(_, _)
CountFrom(part, i) ==
    IF i > Len(part) THEN 0
    ELSE LET e == MatchEnd(part, i)
         IN  IF e = 0 THEN CountFrom(part, i + 1) ELSE 1 + CountFrom(part, e)

CountQuotes(part) == CountFrom(part, 1)

\* The loop of strip_comment_line_with_symbol over the parts.
RECURSIVE strip_loop(_, _, _, _, _)
strip_loop(line, parts, start, nr, total) ==
    IF nr > Len(parts) THEN rstrip(line)
    ELSE LET t == total + CountQuotes(parts[nr])
         IN  IF t % 2 = 0 THEN rstrip(Join(SubSeq(parts, 1, nr), start))
             ELSE strip_loop(line, parts, start, nr + 1, t)

strip_comment_line_with_symbol(line, start) ==
    strip_loop(line, Split(line, start), start, 1, 0)

Hash == <<"#">>
Slashes == <<"/", "/">>

\* The orders in which frozenset(('#', '//')) can be iterated.
SymbolOrders == {<<Hash, Slashes>>, <<Slashes, Hash>>}

\* strip_comments(string), the symbols taken in the given order
strip_comments(lines, symbols) ==
    [k \in DOMAIN lines |->
        strip_comment_line_with_symbol(
            strip_comment_line_with_symbol(lines[k], symbols[1]), symbols[2])]

(***************************************************************************)
(* json.loads of a text holding one object whose members are strings or    *)
(* null.  The text is read as one character sequence, the lines joined by  *)
(* a line break; a line break inside a string is an error, as is an        *)
(* unknown escape, an unterminated string and anything after the object.   *)
(***************************************************************************)
Newline == "\n"

JoinLines(lines) == Join(lines, <<Newline>>)

RECURSIVE SkipWs(_, _)
SkipWs(t, i) ==
    IF i <= Len(t) /\ t[i] \in {Space, Newline} THEN SkipWs(t, i + 1) ELSE i

Fail == [ok |-> FALSE, val |-> None, next |-> 0]

\* The body of a string, from the position after its opening quote.
RECURSIVE ParseStringBody(_, _, _)
ParseStringBody(t, i, acc) ==
    IF i > Len(t) THEN Fail
    ELSE IF t[i] = Quote THEN [ok |-> TRUE, val |-> acc, next |-> i + 1]
    ELSE IF t[i] = Newline THEN Fail
    ELSE IF t[i] = Backslash
         THEN IF i + 1 <= Len(t) /\ t[i + 1] \in {Quote, Backslash, "/"}
              THEN ParseStringBody(t, i + 2, Append(acc, t[i + 1]))
              ELSE Fail
    ELSE ParseStringBody(t, i + 1, Append(acc, t[i]))

ParseString(t, i) ==
    IF i <= Len(t) /\ t[i] = Quote THEN ParseStringBody(t, i + 1, <<>>) ELSE Fail

ParseJsonValue(t, i) ==
    IF StartsAt(t, i, <<"n", "u", "l", "l">>)
    THEN [ok |-> TRUE, val |-> None, next |-> i + 4]
    ELSE ParseString(t, i)

\* The members of an object, from the position of a member's key.
RECURSIVE ParseMembers(_, _, _)
ParseMembers(t, i, dct) ==
    LET k == ParseString(t, i)
        c == IF k.ok THEN SkipWs(t, k.next) ELSE 0
        v == IF k.ok /\ c <= Len(t) /\ t[c] = ":"
             THEN ParseJsonValue(t, SkipWs(t, c + 1)) ELSE Fail
        e == IF v.ok THEN SkipWs(t, v.next) ELSE 0
    IN  IF ~v.ok \/ e > Len(t) THEN [ok |-> FALSE, dct |-> EmptyDict, next |-> 0]
        ELSE IF t[e] = ","
             THEN ParseMembers(t, SkipWs(t, e + 1), DictSet(dct, NameOf(k.val), v.val))
        ELSE IF t[e] = "}"
             THEN [ok |-> TRUE, dct |-> DictSet(dct, NameOf(k.val), v.val), next |-> e + 1]
        ELSE [ok |-> FALSE, dct |-> EmptyDict, next |-> 0]

json_loads(lines) ==
    LET t == JoinLines(lines)
        i == SkipWs(t, 1)
        o == IF i <= Len(t) /\ t[i] = "{"
             THEN LET j == SkipWs(t, i + 1)
                  IN  IF j <= Len(t) /\ t[j] = "}"
                      THEN [ok |-> TRUE, dct |-> EmptyDict, next |-> j + 1]
                      ELSE ParseMembers(t, j, EmptyDict)
             ELSE [ok |-> FALSE, dct |-> EmptyDict, next |-> 0]
    IN  IF o.ok /\ SkipWs(t, o.next) > Len(t)
        THEN [err |-> "none", dct |-> o.dct]
        ELSE [err |-> "JSONDecodeError", dct |-> EmptyDict]

\* BaseConfigClass.from_json: cls.from_dict(json.loads(strip_comments(json_str)))
from_json(h, cls, json_str, symbols) ==
    LET parsed == json_loads(strip_comments(json_str, symbols))
    IN  IF parsed.err # "none" THEN [h |-> h, err |-> parsed.err, obj |-> NoObject]
        ELSE from_dict(h, cls, parsed.dct)

(***************************************************************************)
(* Spec: the calls a program makes on the schema's classes and objects.    *)
(***************************************************************************)
MaxObjects == 2

DictValues == {StrA, StrTricky}

\* The key sets of the mappings passed as keyword arguments, to from_dict and
\* to update: constant names, Derivable names (token is unknown to Config),
\* and mixes of them.
KeySets ==
    {{}, {"project"}, {"secret"}, {"env"}, {"token"},
     {"project", "secret"}, {"project", "env"}, {"secret", "token"}}

Dicts == UNION {{[k \in S |-> v] : v \in DictValues} : S \in KeySets}

Call(op, obj, args, cdd, cp, err, result, calls) ==
    [op |-> op, obj |-> obj, args |-> args,
     check_dont_dump |-> cdd, check_printable |-> cp,
     err |-> err, result |-> result, calls |-> calls]

SetHeap(h) ==
    /\ value' = h.value
    /\ config_object' = h.config_object
    /\ objects' = h.objects

Init ==
    /\ classes = Schema
    /\ creation_index = Cardinality(Fields)
    /\ value = [f \in Fields |-> FieldTable[f].value]
    /\ config_object = [f \in Fields |-> NoObject]
    /\ objects = <<>>
    /\ instances = {}
    /\ last = Call("start", NoObject, EmptyDict, FALSE, FALSE, "none", EmptyDict, <<>>)
    /\ cf_dict = <<>> /\ cf_data = <<>>
    /\ ToolsIdle

\* cls(**kwargs)
Construct(cls, kwargs) ==
    /\ Len(objects) < MaxObjects
    /\ LET r == BaseConfigClass_init(Heap, cls, kwargs)
       IN  /\ SetHeap(r.h)
           /\ instances' = IF r.err = "none" THEN instances \cup {r.obj} ELSE instances
           /\ last' = Call("init", r.obj, kwargs, FALSE, FALSE, r.err, EmptyDict, <<>>)
    /\ UNCHANGED <<regVars, cfVars, toolVars>>

\* cls.from_dict(dct)
FromDict(cls, dct) ==
    /\ Len(objects) < MaxObjects
    /\ LET r == from_dict(Heap, cls, dct)
       IN  /\ SetHeap(r.h)
           /\ instances' = IF r.err = "none" THEN instances \cup {r.obj} ELSE instances
           /\ last' = Call("from_dict", r.obj, dct, FALSE, FALSE, r.err, EmptyDict, <<>>)
    /\ UNCHANGED <<regVars, cfVars, toolVars>>

\* obj.update(dct)
Update(obj, dct) ==
    /\ LET r == update(Heap, obj, dct)
       IN  /\ SetHeap(r.h)
           /\ last' = Call("update", obj, dct, FALSE, FALSE, r.err, EmptyDict, <<>>)
    /\ UNCHANGED <<regVars, cfVars, toolVars, instances>>

\* obj.<name>.set_value(v)
SetValue(obj, name, v) ==
    /\ name \in Range(PairNames(declared_fields(objects[obj])))
    /\ LET r == set_value(Heap, Lookup(declared_fields(objects[obj]), name), v)
       IN  /\ SetHeap(r.h)
           /\ last' = Call("set_value", obj, DictSet(EmptyDict, name, v),
                           FALSE, FALSE, r.err, EmptyDict, <<>>)
    /\ UNCHANGED <<regVars, cfVars, toolVars, instances>>

\* obj.to_dict(check_dont_dump, check_printable)
ToDict(obj, cdd, cp) ==
    /\ LET r == to_dict(Heap, obj, cdd, cp)
       IN  last' = Call("to_dict", obj, EmptyDict, cdd, cp, r.err, DictOf(r.dct), <<>>)
    /\ UNCHANGED <<regVars, cfVars, toolVars, value, config_object, objects, instances>>

\* obj.validate()
Validate(obj) ==
    /\ LET r == validate(Heap, obj)
       IN  last' = Call("validate", obj, EmptyDict, FALSE, FALSE, r.err, EmptyDict, r.calls)
    /\ UNCHANGED <<regVars, cfVars, toolVars, value, config_object, objects, instances>>

\* type(obj).from_json(obj.to_json())
FromJsonOfToJson(obj, symbols) ==
    /\ Len(objects) < MaxObjects
    /\ LET j == to_json(Heap, obj, TRUE, FALSE)
           r == IF j.err # "none" THEN [h |-> Heap, err |-> j.err, obj |-> NoObject]
                ELSE from_json(Heap, objects[obj], j.text, symbols)
       IN  /\ SetHeap(r.h)
           /\ instances' = IF r.err = "none" THEN instances \cup {r.obj} ELSE instances
           /\ last' = Call("from_json", obj, EmptyDict, TRUE, FALSE, r.err, EmptyDict, <<>>)
    /\ UNCHANGED <<regVars, cfVars, toolVars>>

Next ==
    \/ \E cls \in SchemaClasses, kwargs \in Dicts : Construct(cls, kwargs)
    \/ \E cls \in SchemaClasses, dct \in Dicts : FromDict(cls, dct)
    \/ \E obj \in instances, dct \in Dicts : Update(obj, dct)
    \/ \E obj \in instances, name \in Keys, v \in Values : SetValue(obj, name, v)
    \/ \E obj \in instances, cdd \in BOOLEAN, cp \in BOOLEAN : ToDict(obj, cdd, cp)
    \/ \E obj \in instances : Validate(obj)

Spec == Init /\ [][Next]_vars

\* SpecJson: objects are constructed, their fields set, and an object is
\* written to JSON text and read back.
NextJson ==
    \/ \E cls \in SchemaClasses, kwargs \in Dicts : Construct(cls, kwargs)
    \/ \E obj \in instances, name \in Keys, v \in Values : SetValue(obj, name, v)
    \/ \E obj \in instances, symbols \in SymbolOrders : FromJsonOfToJson(obj, symbols)

SpecJson == Init /\ [][NextJson]_vars

(***************************************************************************)
(* SpecCamel: to_cloudformation_config_data on an object whose to_dict()   *)
(* has the given keys.  A key is a field name: letters, digits and         *)
(* underscores, not starting with a digit.                                 *)
(***************************************************************************)
MaxNameLen == 3
NameAlphabet == {"a", "B", "3", "_"}

KeyNames ==
    {n \in UNION {[1..k -> NameAlphabet] : k \in 1..MaxNameLen} : n[1] # "3"}

\* str.upper() and str.lower() on one character
\* The letters of the key names.
LowerLetters == <<"a", "b">>
UpperLetters == <<"A", "B">>

UpperChar(c) ==
    IF \E i \in DOMAIN LowerLetters : LowerLetters[i] = c
    THEN UpperLetters[CHOOSE i \in DOMAIN LowerLetters : LowerLetters[i] = c]
    ELSE c

LowerChar(c) ==
    IF \E i \in DOMAIN UpperLetters : UpperLetters[i] = c
    THEN LowerLetters[CHOOSE i \in DOMAIN UpperLetters : UpperLetters[i] = c]
    ELSE c

lower(word) == [i \in DOMAIN word |-> LowerChar(word[i])]

\* The comprehension of to_big_camel_case over text.split("_"); word[0] of an
\* empty word raises IndexError.
RECURSIVE camel_words(_)
camel_words(words) ==
    IF words = <<>> THEN [err |-> "none", text |-> <<>>]
    ELSE IF Head(words) = <<>> THEN [err |-> "IndexError", text |-> <<>>]
    ELSE LET rest == camel_words(Tail(words))
         IN  IF rest.err # "none" THEN rest
             ELSE [err |-> "none",
                   text |-> <<UpperChar(Head(words)[1])>> \o lower(Tail(Head(words)))
                            \o rest.text]

to_big_camel_case(text) == camel_words(Split(text, <<"_">>))

\* The dict comprehension of to_cloudformation_config_data over
\* self.to_dict().items(): a key produced twice keeps the later value.
RECURSIVE cloudformation_loop(_, _)
cloudformation_loop(pairs, dct) ==
    IF pairs = <<>> THEN [err |-> "none", dct |-> dct]
    ELSE LET k == to_big_camel_case(Head(pairs)[1])
         IN  IF k.err # "none" THEN [err |-> k.err, dct |-> EmptyDict]
             ELSE cloudformation_loop(Tail(pairs), DictSet(dct, k.text, Head(pairs)[2]))

to_cloudformation_config_data(pairs) == cloudformation_loop(pairs, EmptyDict)

NotCalled == [err |-> "not called", dct |-> EmptyDict]

\* The objects: one or two fields, the first holding "a" and the second \"#.
InitCamel ==
    /\ classes = Schema
    /\ creation_index = Cardinality(Fields)
    /\ value = <<>> /\ config_object = <<>> /\ objects = <<>>
    /\ instances = {} /\ last = <<>>
    /\ \E k1 \in KeyNames, k2 \in KeyNames :
          cf_dict \in {<< <<k1, StrA>> >>} \cup
                      (IF k1 # k2 THEN {<< <<k1, StrA>>, <<k2, StrTricky>> >>} ELSE {})
    /\ cf_data = NotCalled
    /\ ToolsIdle

ToCloudformationConfigData ==
    /\ cf_data = NotCalled
    /\ cf_data' = to_cloudformation_config_data(cf_dict)
    /\ UNCHANGED <<regVars, cfgVars, cf_dict, toolVars>>

NextCamel == ToCloudformationConfigData

SpecCamel == InitCamel /\ [][NextCamel]_vars

(***************************************************************************)
(* SpecStrip: strip_comments on a well-formed JSON text.  The text is an   *)
(* object of two string members written on one line between the braces,    *)
(* with a '#' or '//' comment added after the members or with none.  The   *)
(* first string is any string over StripAlphabet, so that empty strings,   *)
(* escaped quotes and escaped backslashes precede the second string, which *)
(* is empty or holds a comment symbol.                                     *)
(***************************************************************************)
MaxStrLen == 3
StripAlphabet == {"a", Quote, Backslash, "#", "/"}

Strings == UNION {[1..k -> StripAlphabet] : k \in 0..MaxStrLen}

SecondStrings == {<<>>, Hash, Slashes, StrTricky}

\* The text of a comment, after its symbol.
CommentBodies == {<<>>, <<"a">>, <<Quote>>}

Comments ==
    {<<>>} \cup {<<Space>> \o sym \o body : sym \in {Hash, Slashes}, body \in CommentBodies}

MemberLine(v1, v2) ==
    <<Space, Space, Space, Space>> \o EncodeString(Chars("project")) \o <<":", Space>>
    \o EncodeString(v1) \o <<",", Space>> \o EncodeString(Chars("secret"))
    \o <<":", Space>> \o EncodeString(v2)

JsonText(v1, v2, comment) == << <<"{">>, MemberLine(v1, v2) \o comment, <<"}">> >>

NotStripped == [called |-> FALSE, text |-> <<>>]

InitStrip ==
    /\ classes = Schema
    /\ creation_index = Cardinality(Fields)
    /\ value = <<>> /\ config_object = <<>> /\ objects = <<>>
    /\ instances = {} /\ last = <<>>
    /\ cf_dict = <<>> /\ cf_data = <<>>
    /\ DumpIdle /\ InjectIdle /\ PathIdle
    /\ \E v1 \in Strings, v2 \in SecondStrings, comment \in Comments :
          strip_text = [v1 |-> v1, v2 |-> v2, comment |-> comment,
                        clean |-> JsonText(v1, v2, <<>>),
                        text |-> JsonText(v1, v2, comment)]
    /\ strip_result = NotStripped

\* strip_comments(text), the frozenset of symbols iterated in the given order
StripComments(symbols) ==
    /\ ~strip_result.called
    /\ strip_result' = [called |-> TRUE, text |-> strip_comments(strip_text.text, symbols)]
    /\ UNCHANGED <<regVars, cfgVars, cfVars, strip_text, dumpVars, injectVars, pathVars>>

NextStrip == \E symbols \in SymbolOrders : StripComments(symbols)

SpecStrip == InitStrip /\ [][NextStrip]_vars

(***************************************************************************)
(* SpecDump: the dump_*_config_file operations on an object whose          *)
(* to_dict() has the given keys.  CONFIG_DIR is None, the name of a        *)
(* directory that exists or the name of one that does not; a file is named *)
(* by the pair <<directory, file name>> that os.path.join builds and holds *)
(* the lines written to it.                                                *)
(***************************************************************************)
NoConfigDir == "None"
ExistingDirs == {"conf"}
ConfigDirs == {NoConfigDir, "conf", "gone"}

\* BaseConfigClass._join_config_dir
join_config_dir(dir, filename) ==
    IF dir = NoConfigDir THEN [err |-> "ValueError", path |-> <<>>]
    ELSE IF dir \notin ExistingDirs THEN [err |-> "ValueError", path |-> <<>>]
    ELSE [err |-> "none", path |-> <<dir, filename>>]

\* The CONFIG_FINAL_JSON_FILE_FOR_* properties, by the name of the tool.
CONFIG_FINAL_JSON_FILE_FOR(dir, tool) ==
    join_config_dir(dir,
        CASE tool = "PYTHON" -> "config-final-for-python.json"
          [] tool = "SHELL_SCRIPT" -> "config-final-for-shell-script.json"
          [] tool = "CLOUDFORMATION" -> "config-final-for-cloudformation.json"
          [] tool = "SAM" -> "config-final-for-sam.json"
          [] tool = "SERVERLESS" -> "config-final-for-serverless.json"
          [] tool = "TERRAFORM" -> "config-final-for-terraform.json")

\* The dump_*_config_file methods: the to_*_config_data method each passes
\* and the property it reads the path from.
DumpMethods ==
    [python_json |-> [data |-> "python_json", file |-> "PYTHON"],
     shell_script_json |-> [data |-> "shell_script", file |-> "SHELL_SCRIPT"],
     cloudformation_json |-> [data |-> "cloudformation", file |-> "CLOUDFORMATION"],
     sam_json |-> [data |-> "sam", file |-> "SAM"],
     serverless_json |-> [data |-> "serverless", file |-> "SERVERLESS"],
     terraform_json |-> [data |-> "terraform", file |-> "TERRAFORM"]]

\* The to_*_config_data methods, pairs being what self.to_dict() returns.
to_config_data(pairs, meth) ==
    IF meth = "cloudformation" THEN to_cloudformation_config_data(pairs)
    ELSE [err |-> "none", dct |-> DictOf(pairs)]

\* The characters of the keys, in code point order.
CodePoints == <<"3", "A", "B", "_", "a", "b">>

Ord(c) == CHOOSE i \in DOMAIN CodePoints : CodePoints[i] = c

\* a < b for two strings
RECURSIVE StrLess(_, _)
StrLess(a, b) ==
    IF a = <<>> THEN b # <<>>
    ELSE IF b = <<>> THEN FALSE
    ELSE IF Head(a) = Head(b) THEN StrLess(Tail(a), Tail(b))
    ELSE Ord(Head(a)) < Ord(Head(b))

RECURSIVE SortedKeys(_)
SortedKeys(ks) ==
    IF ks = {} THEN <<>>
    ELSE LET m == CHOOSE k \in ks : \A o \in ks \ {k} : StrLess(k, o)
         IN  <<m>> \o SortedKeys(ks \ {m})

\* json_dumps(data): json.dumps(data, indent=4, sort_keys=True, ensure_ascii=False)
json_dumps(data) ==
    LET ks == SortedKeys(DOMAIN data)
    IN  IF ks = <<>> THEN << <<"{", "}">> >>
        ELSE << <<"{">> >> \o
             [i \in DOMAIN ks |->
                 <<Space, Space, Space, Space>> \o EncodeString(ks[i])
                 \o <<":", Space>> \o EncodeValue(data[ks[i]])
                 \o (IF i < Len(ks) THEN <<",">> ELSE <<>>)]
             \o << <<"}">> >>

\* write_text(text, abspath): open(abspath, "wb") and write
write_text(fs, text, abspath) ==
    [f \in DOMAIN fs \cup {abspath} |-> IF f = abspath THEN text ELSE fs[f]]

\* A dump_*_config_file method: the path property is read when the
\* arguments of _dump_for_xxx_config_file are evaluated, then the data is
\* computed, encoded and written.
dump_config_file(fs, dir, pairs, meth) ==
    LET p == CONFIG_FINAL_JSON_FILE_FOR(dir, DumpMethods[meth].file)
        d == to_config_data(pairs, DumpMethods[meth].data)
    IN  IF p.err # "none" THEN [err |-> p.err, fs |-> fs]
        ELSE IF d.err # "none" THEN [err |-> d.err, fs |-> fs]
        ELSE [err |-> "none", fs |-> write_text(fs, json_dumps(d.dct), p.path)]

\* The field names of the object: one of at most two characters, alone or
\* with a second one.
DumpKeyNames == {n \in KeyNames : Len(n) <= 2}
SecondKeyName == <<"B">>

\* What a file written by an earlier run holds.
StaleText == << <<"{", "}">> >>
StaleFiles == {<<>>, [f \in {<<"conf", "config-final-for-python.json">>} |-> StaleText]}

\* CONFIG_DIR is any of ConfigDirs and the directory "conf" is empty or
\* holds a stale file.
InitDump ==
    /\ classes = Schema
    /\ creation_index = Cardinality(Fields)
    /\ value = <<>> /\ config_object = <<>> /\ objects = <<>>
    /\ instances = {}
    /\ last = Call("start", NoObject, EmptyDict, FALSE, FALSE, "none", EmptyDict, <<>>)
    /\ \E k1 \in DumpKeyNames :
          cf_dict \in {<< <<k1, StrA>> >>} \cup
                      (IF k1 # SecondKeyName
                       THEN {<< <<k1, StrA>>, <<SecondKeyName, StrTricky>> >>} ELSE {})
    /\ cf_data = <<>>
    /\ StripIdle /\ InjectIdle /\ PathIdle
    /\ config_dir \in ConfigDirs
    /\ files \in StaleFiles

\* self.dump_<meth>_config_file()
Dump(meth) ==
    /\ LET r == dump_config_file(files, config_dir, cf_dict, meth)
       IN  /\ files' = r.fs
           /\ last' = Call("dump", NoObject, meth, FALSE, FALSE, r.err, EmptyDict, <<>>)
    /\ UNCHANGED <<regVars, cfVars, value, config_object, objects, instances,
                   config_dir, stripVars, injectVars, pathVars>>

NextDump == \E meth \in DOMAIN DumpMethods : Dump(meth)

SpecDump == InitDump /\ [][NextDump]_vars

(***************************************************************************)
(* SpecInject: inject_template.inject_variable(text, data).  A text is a   *)
(* sequence of characters built from at most MaxTokens tokens: the braces  *)
(* "{{" and "}}", a letter, a closing parenthesis and a space.             *)
(***************************************************************************)
MaxTokens == 4
Open == <<"{", "{">>
Close == <<"}", "}">>
Tokens == {Open, Close, <<"a">>, <<")">>, <<Space>>}

RECURSIVE Concat(_)
Concat(parts) == IF parts = <<>> THEN <<>> ELSE Head(parts) \o Concat(Tail(parts))

Texts == {Concat(ts) : ts \in UNION {[1..n -> Tokens] : n \in 0..MaxTokens}}

InjectKeys == {<<"a">>, <<"a", ")">>, <<")">>}
InjectValues == {<<"x">>, Open \o <<"a">> \o Close}

Datas == UNION {{[k \in K |-> v] : v \in InjectValues} : K \in SUBSET InjectKeys}

\* The end of the shortest run of one or more characters other than ")"
\* from i that is followed by "}}": the position of that "}}", 0 when none.
RECURSIVE LazyEnd(_, _)
LazyEnd(text, j) ==
    IF j > Len(text) \/ text[j - 1] = ")" THEN 0
    ELSE IF StartsAt(text, j, Close) THEN j
    ELSE LazyEnd(text, j + 1)

\* A match of \{\{([^)]+?)\}\} starting at i: the position of its "}}", or 0.
PatternEnd(text, i) ==
    IF StartsAt(text, i, Open) /\ i + 2 <= Len(text) THEN LazyEnd(text, i + 3) ELSE 0

\* re.findall(pattern, text): the captured groups of the non-overlapping
\* matches, left to right
RECURSIVE findall(_, _)
findall(text, i) ==
    IF i > Len(text) THEN <<>>
    ELSE LET e == PatternEnd(text, i)
         IN  IF e = 0 THEN findall(text, i + 1)
             ELSE <<SubSeq(text, i + 2, e - 1)>> \o findall(text, e + 2)

RECURSIVE lstrip(_)
lstrip(str) == IF str # <<>> /\ Head(str) = Space THEN lstrip(Tail(str)) ELSE str

strip(str) == lstrip(rstrip(str))

\* text.replace(old, new) for a non-empty old
RECURSIVE replace(_, _, _, _)
replace(text, old, new, i) ==
    IF i > Len(text) THEN <<>>
    ELSE IF StartsAt(text, i, old) THEN new \o replace(text, old, new, i + Len(old))
    ELSE <<text[i]>> \o replace(text, old, new, i + 1)

\* The loop of inject_variable over the names found in the original text.
RECURSIVE inject_loop(_, _, _)
inject_loop(text, names, data) ==
    IF names = <<>> THEN [err |-> "none", text |-> text]
    ELSE LET key == strip(Head(names))
             var_name == Open \o Head(names) \o Close
         IN  IF key \notin DOMAIN data THEN [err |-> "ValueError", text |-> <<>>]
             ELSE inject_loop(replace(text, var_name, data[key], 1), Tail(names), data)

inject_variable(text, data) ==
    LET r == inject_loop(text, findall(text, 1), data)
    IN  IF r.err # "none" THEN r
        ELSE IF Len(findall(r.text, 1)) > 0 THEN [err |-> "ValueError", text |-> <<>>]
        ELSE r

NotInjected == [err |-> "not called", text |-> <<>>]

InitInject ==
    /\ classes = Schema
    /\ creation_index = Cardinality(Fields)
    /\ value = <<>> /\ config_object = <<>> /\ objects = <<>>
    /\ instances = {} /\ last = <<>>
    /\ cf_dict = <<>> /\ cf_data = <<>>
    /\ StripIdle /\ DumpIdle /\ PathIdle
    /\ \E text \in Texts, data \in Datas : inject_args = [text |-> text, data |-> data]
    /\ inject_result = NotInjected

InjectVariable ==
    /\ inject_result = NotInjected
    /\ inject_result' = inject_variable(inject_args.text, inject_args.data)
    /\ UNCHANGED <<regVars, cfgVars, cfVars, stripVars, dumpVars, inject_args, pathVars>>

NextInject == InjectVariable

SpecInject == InitInject /\ [][NextInject]_vars

(***************************************************************************)
(* SpecPath: read_json_value.get_json_value(file_path, json_path), from    *)
(* the document json.loads returned.  A JSON value is a record tagged with *)
(* its Python type; a path is the string its segments joined by "." make.  *)
(***************************************************************************)
MaxPathLen == 3

JsonStr(cs) == [type |-> "str", chars |-> cs]
JsonInt == [type |-> "int"]
JsonNull == [type |-> "NoneType"]
JsonList(xs) == [type |-> "list", elems |-> xs]
JsonDict(m) == [type |-> "dict", items |-> m]

Leaves == {JsonStr(<<"a">>), JsonInt, JsonNull, JsonList(<<JsonStr(<<"a">>)>>)}

\* The dicts over the given keys whose values are in vals; a key may be absent.
DictsOver(keys, vals) ==
    UNION {{JsonDict(m) : m \in [K -> vals]} : K \in SUBSET keys}

Inner == DictsOver({<<"a">>, <<"b">>}, Leaves)

Documents ==
    Leaves \cup DictsOver({<<"a">>}, Leaves \cup Inner)
           \cup {JsonDict([k \in {<<"a">>, <<"b">>} |->
                              IF k = <<"a">> THEN v ELSE JsonStr(<<"b">>)])
                   : v \in Leaves \cup Inner}

Segments == {<<"a">>, <<"b">>, <<>>}

Dot == <<".">>
Dollar == <<"$", ".">>

Paths == {Join(segs, Dot) : segs \in UNION {[1..n -> Segments] : n \in 1..MaxPathLen}}

\* part in value
contains(val, part) ==
    CASE val.type = "dict" -> [err |-> "none", found |-> part \in DOMAIN val.items]
      [] val.type = "str" ->
            [err |-> "none",
             found |-> \E i \in 1..(Len(val.chars) + 1) : StartsAt(val.chars, i, part)]
      [] val.type = "list" ->
            [err |-> "none",
             found |-> \E i \in DOMAIN val.elems : val.elems[i] = JsonStr(part)]
      [] OTHER -> [err |-> "TypeError", found |-> FALSE]

\* value[part]
getitem(val, part) ==
    IF val.type = "dict" THEN [err |-> "none", val |-> val.items[part]]
    ELSE [err |-> "TypeError", val |-> JsonNull]

\* The loop of get_json_value over json_path.split(".")
RECURSIVE path_loop(_, _)
path_loop(val, parts) ==
    IF parts = <<>> THEN [err |-> "none", val |-> val]
    ELSE LET c == contains(val, Head(parts))
         IN  IF c.err # "none" THEN [err |-> c.err, val |-> JsonNull]
             ELSE IF ~c.found THEN [err |-> "ValueError", val |-> JsonNull]
             ELSE LET g == getitem(val, Head(parts))
                  IN  IF g.err # "none" THEN g ELSE path_loop(g.val, Tail(parts))

\* get_json_value, data being what json.loads returned for the file
get_json_value(data, json_path) ==
    LET fixed == IF StartsAt(json_path, 1, Dollar)
                 THEN SubSeq(json_path, 3, Len(json_path))
                 ELSE json_path
    IN  path_loop(data, Split(fixed, Dot))

PathNotCalled == [err |-> "not called", val |-> JsonNull]

InitPath ==
    /\ classes = Schema
    /\ creation_index = Cardinality(Fields)
    /\ value = <<>> /\ config_object = <<>> /\ objects = <<>>
    /\ instances = {} /\ last = <<>>
    /\ cf_dict = <<>> /\ cf_data = <<>>
    /\ StripIdle /\ DumpIdle /\ InjectIdle
    /\ \E data \in Documents, json_path \in Paths :
          path_args = [data |-> data, json_path |-> json_path, dollar |-> FALSE]
    /\ path_result = PathNotCalled

\* get_json_value(file, json_path), or with "$." before the path
GetJsonValue(dollar) ==
    /\ path_result = PathNotCalled
    /\ path_args' = [path_args EXCEPT !.dollar = dollar]
    /\ path_result' =
          get_json_value(path_args.data,
                         IF dollar THEN Dollar \o path_args.json_path
                         ELSE path_args.json_path)
    /\ UNCHANGED <<regVars, cfgVars, cfVars, stripVars, dumpVars, injectVars>>

NextPath == \E dollar \in BOOLEAN : GetJsonValue(dollar)

SpecPath == InitPath /\ [][NextPath]_vars

(***************************************************************************)
(* The claims about the Field and Config Instance operations.              *)
(***************************************************************************)
DeclaredNames(cls) == Range(PairNames(declared_fields(cls)))
ConstantNames(cls) == Range(PairNames(constant_fields(cls)))
DerivableNames(cls) == Range(PairNames(deriable_fields(cls)))
FieldOf(cls, name) == Lookup(declared_fields(cls), name)

\* The constant-field values obj.to_dict() reports.
ReportedConstants(obj) ==
    LET d == to_dict(Heap, obj, TRUE, FALSE)
        m == DictOf(d.dct)
    IN  [err |-> d.err,
         dct |-> [n \in DOMAIN m \cap ConstantNames(objects[obj]) |-> m[n]]]

\* C1: a construction, from_dict or update that sets constant fields on one
\* object leaves the constant-field values every other object's to_dict()
\* reports unchanged.
C1_InstanceIsolation ==
    [][\A a \in instances :
          (last'.op \in {"init", "from_dict", "update"} /\ last'.obj # a)
              => ReportedConstants(a)' = ReportedConstants(a)]_vars

\* C2: set_value on a Derivable field raises DeriableSetValueError for every
\* value and leaves every stored value unchanged; a construction with a
\* keyword argument naming a Derivable field raises the same error.
C2_DerivableSetValueFails ==
    [][/\ (/\ last'.op = "set_value"
           /\ DOMAIN last'.args \subseteq DerivableNames(objects[last'.obj]))
          => (last'.err = "DeriableSetValueError" /\ value' = value)
       /\ (/\ last'.op = "init"
           /\ DOMAIN last'.args \cap DerivableNames(objects'[last'.obj]) # {})
          => last'.err = "DeriableSetValueError"]_vars

C2_Witness ==
    /\ last.op = "set_value"
    /\ last.args = DictSet(EmptyDict, "env", StrTricky)
    /\ last.err = "DeriableSetValueError"
    /\ value[FieldOf(objects[last.obj], "env")] = None

\* The value a Derivable field's getter computes: the stored value of the
\* field the getter reads, on the class of the object the field is bound to.
GetterValueIn(h, f) ==
    h.value[FieldOf(h.objects[h.config_object[f]], FieldTable[f].getter)]

GetterValue(f) == GetterValueIn(Heap, f)

\* C3: from_dict(mapping) and update(mapping) raise nothing, set exactly the
\* constant fields named by the mapping's keys to the mapped values, leave
\* every other stored value as it was, and a Derivable field named in the
\* mapping still reads as its getter's value.
C3_FromDictUpdate ==
    [][last'.op \in {"from_dict", "update"} =>
          LET cls == objects'[last'.obj]
              dct == last'.args
              named == {FieldOf(cls, n) : n \in DOMAIN dct \cap ConstantNames(cls)}
          IN  /\ last'.err = "none"
              /\ \A f \in Fields :
                    value'[f] = IF f \in named
                                THEN dct[FieldTable[f].name]
                                ELSE value[f]
              /\ \A n \in DOMAIN dct \cap DerivableNames(cls) :
                    LET g == get_value(Heap', FieldOf(cls, n), FALSE, FALSE)
                    IN  g.err = "none" /\ g.val = GetterValueIn(Heap', FieldOf(cls, n))
      ]_vars

C3_Witness ==
    /\ last.op = "update"
    /\ last.args = [k \in {"project", "env"} |-> StrTricky]
    /\ objects[last.obj] = Config
    /\ value[0] = StrTricky
    /\ value[1] = None
    /\ get_value(Heap, 2, FALSE, FALSE).val = StrTricky

\* C5: to_dict(check_dont_dump=True) returns exactly the declared fields that
\* are not dont_dump, to_dict(check_dont_dump=False) returns every declared
\* field, and DontDumpError never reaches the caller.
C5_DontDump ==
    last.op = "to_dict" =>
        LET cls == objects[last.obj]
        IN  /\ last.err = "none"
            /\ DOMAIN last.result =
                  IF last.check_dont_dump
                  THEN {n \in DeclaredNames(cls) : ~FieldTable[FieldOf(cls, n)].dont_dump}
                  ELSE DeclaredNames(cls)

C5_Witness ==
    /\ last.op = "to_dict"
    /\ objects[last.obj] = SubConfig
    /\ last.check_dont_dump
    /\ DOMAIN last.result = {"project", "env"}

\* C6: in a returned dump, a field with printable=False reads "***HIDDEN***"
\* under check_printable=True and its real value (the stored value of a
\* Constant, the getter's value of a Derivable) under check_printable=False;
\* a printable field always reads its real value.
C6_Printable ==
    (last.op = "to_dict" /\ last.err = "none") =>
        \A n \in DOMAIN last.result :
            LET f == FieldOf(objects[last.obj], n)
            IN  last.result[n] =
                   IF last.check_printable /\ ~FieldTable[f].printable THEN HIDDEN
                   ELSE IF FieldTable[f].kind = "Constant" THEN value[f]
                   ELSE GetterValue(f)

C6_Witness ==
    /\ last.op = "to_dict"
    /\ last.check_printable /\ ~last.check_dont_dump
    /\ last.result["secret"] = HIDDEN
    /\ last.result["env"] = HIDDEN
    /\ last.result["project"] = StrTricky

\* C7: from_json(c.to_json()) returns an instance, and every constant field
\* of it holds the value c held for that field.
C7_JsonRoundTrip ==
    [][last'.op = "from_json" =>
          /\ last'.err = "none"
          /\ \A n \in ConstantNames(objects[last'.obj]) :
                value'[FieldOf(objects[last'.obj], n)]
                    = value[FieldOf(objects[last'.obj], n)]]_vars

\* The fields validate() visits: the constants, then the derivables.
ValidateOrder(cls) == constant_fields(cls) \o deriable_fields(cls)

Raised(call) == validate_method(call.field, call.self_arg, call.value) # "none"

\* C9: validate() calls the validators of the constant fields in registry
\* order, then those of the derivable fields; the first validator that
\* raises ends validate() with its error and no later validator is called;
\* when no validator raises, every field's validator was called once.
C9_ValidateOrder ==
    last.op = "validate" =>
        LET expected == ValidateOrder(objects[last.obj])
            calls == last.calls
        IN  /\ Len(calls) <= Len(expected)
            /\ \A i \in DOMAIN calls : calls[i].field = expected[i][2]
            /\ \A i \in DOMAIN calls : i < Len(calls) => ~Raised(calls[i])
            /\ IF calls # <<>> /\ Raised(calls[Len(calls)])
               THEN last.err = validate_method(calls[Len(calls)].field,
                                               calls[Len(calls)].self_arg,
                                               calls[Len(calls)].value)
               ELSE last.err = "none" /\ Len(calls) = Len(expected)

\* C10: validate calls a Derivable field's validator with the value its
\* getter computes from the validated instance, whatever the field's flags,
\* and a Constant's validator with its stored value; validate raises only
\* what a getter or a validator raises.
C10_ValidateValue ==
    last.op = "validate" =>
        /\ last.err \in {"none", "ValueError"}
        /\ \A i \in DOMAIN last.calls :
              LET f == last.calls[i].field
              IN  last.calls[i].value =
                     IF FieldTable[f].kind = "Constant" THEN value[f]
                     ELSE value[FieldOf(objects[last.obj], FieldTable[f].getter)]

(***************************************************************************)
(* C8.  The CloudFormation keys, stated from the key's characters alone.   *)
(***************************************************************************)
RECURSIVE ExpectedCamelFrom(_, _)
ExpectedCamelFrom(name, first) ==
    IF name = <<>> THEN <<>>
    ELSE IF Head(name) = "_" THEN ExpectedCamelFrom(Tail(name), TRUE)
    ELSE <<IF first THEN UpperChar(Head(name)) ELSE LowerChar(Head(name))>>
         \o ExpectedCamelFrom(Tail(name), FALSE)

ExpectedCamel(name) == ExpectedCamelFrom(name, TRUE)

\* C8: to_cloudformation_config_data returns one entry per key of to_dict():
\* the key split on '_', each segment capitalised, the segments joined,
\* mapped to the same value.
C8_CloudFormationKeys ==
    cf_data # NotCalled =>
        /\ cf_data.err = "none"
        /\ Cardinality(DOMAIN cf_data.dct) = Len(cf_dict)
        /\ \A i \in DOMAIN cf_dict :
              /\ ExpectedCamel(cf_dict[i][1]) \in DOMAIN cf_data.dct
              /\ cf_data.dct[ExpectedCamel(cf_dict[i][1])] = cf_dict[i][2]

(***************************************************************************)
(* C11, C12.  strip_comments on JSON text.                                 *)
(***************************************************************************)
\* C11: parsing the stripped text gives the structure that parsing the
\* comment-free text gives, for every well-formed text with '#' or '//'
\* comments added outside its strings.
C11_StripThenParse ==
    (strip_result.called /\ strip_text.comment # <<>>) =>
        /\ json_loads(strip_text.clean).err = "none"
        /\ json_loads(strip_result.text) = json_loads(strip_text.clean)

IsPrefix(s, t) == Len(s) <= Len(t) /\ SubSeq(t, 1, Len(s)) = s

RECURSIVE HasSymbol(_, _)
HasSymbol(str, i) ==
    /\ i <= Len(str)
    /\ \/ StartsAt(str, i, Hash)
       \/ StartsAt(str, i, Slashes)
       \/ HasSymbol(str, i + 1)

\* C12: a line with a string that holds a '#' or '//' is never cut inside
\* that string, whatever strings precede it on the line: every line of the
\* stripped text starts with the whole of the line's JSON content.
C12_NoCutInsideString ==
    (/\ strip_result.called
     /\ HasSymbol(strip_text.v1, 1) \/ HasSymbol(strip_text.v2, 1)) =>
        \A k \in DOMAIN strip_text.clean :
            IsPrefix(strip_text.clean[k], strip_result.text[k])

(***************************************************************************)
(* C13.  The dump_*_config_file operations.                                *)
(***************************************************************************)
\* The fixed file name of each dump operation.
DumpFileName(meth) ==
    CASE meth = "python_json" -> "config-final-for-python.json"
      [] meth = "shell_script_json" -> "config-final-for-shell-script.json"
      [] meth = "cloudformation_json" -> "config-final-for-cloudformation.json"
      [] meth = "sam_json" -> "config-final-for-sam.json"
      [] meth = "serverless_json" -> "config-final-for-serverless.json"
      [] meth = "terraform_json" -> "config-final-for-terraform.json"

\* C13: a dump operation raises ValueError when CONFIG_DIR is unset or names
\* no existing directory, and then writes no file and changes nothing the
\* object reports; otherwise it writes the JSON text of the format's dict to the
\* format's file under CONFIG_DIR and to no other file.
C13_DumpConfigFile ==
    [][last'.op = "dump" =>
          IF config_dir = NoConfigDir \/ config_dir \notin ExistingDirs
          THEN /\ last'.err = "ValueError"
               /\ files' = files
               /\ cf_dict' = cf_dict
          ELSE LET path == <<config_dir, DumpFileName(last'.args)>>
               IN  /\ last'.err = "none"
                   /\ cf_dict' = cf_dict
                   /\ DOMAIN files' = DOMAIN files \cup {path}
                   /\ \A f \in DOMAIN files : f # path => files'[f] = files[f]
                   /\ files'[path] =
                         json_dumps(to_config_data(cf_dict,
                                                   DumpMethods[last'.args].data).dct)]_vars

(***************************************************************************)
(* C14.  inject_variable.                                                  *)
(***************************************************************************)
\* A placeholder: "{{", a name of one or more characters none of which is
\* a brace, and "}}".
HasPlaceholder(text) ==
    \E i, j \in DOMAIN text :
        /\ StartsAt(text, i, Open)
        /\ StartsAt(text, j, Close)
        /\ j > i + 2
        /\ \A k \in (i + 2)..(j - 1) : text[k] \notin {"{", "}"}

\* C14: inject_variable returns a text without placeholders or raises
\* ValueError; a text that still holds a placeholder is never returned.
C14_NoPlaceholderLeft ==
    inject_result # NotInjected =>
        \/ inject_result.err = "ValueError"
        \/ inject_result.err = "none" /\ ~HasPlaceholder(inject_result.text)

(***************************************************************************)
(* C15, C17, C18.  The back-reference, the default and the validator's     *)
(* first argument.                                                         *)
(***************************************************************************)
\* The object get_value passes to the getter of the Derivable field f.
GetterArg(f) == config_object[f]

\* C15: to_dict() and validate() on an object invoke the getter of each of
\* its Derivable fields with that object, whatever objects were constructed
\* after it.
C15_BackReference ==
    (last.op \in {"to_dict", "validate"}) =>
        \A i \in DOMAIN deriable_fields(objects[last.obj]) :
            GetterArg(deriable_fields(objects[last.obj])[i][2]) = last.obj

\* C17: on the first object constructed, a constant field given no keyword
\* argument reports the value of its declaration when that is not None, and
\* the default of its declaration otherwise.
C17_DefaultValue ==
    (last.op = "init" /\ last.err = "none" /\ Len(objects) = 1) =>
        \A i \in DOMAIN constant_fields(objects[1]) :
            LET name == constant_fields(objects[1])[i][1]
                f == constant_fields(objects[1])[i][2]
            IN  name \notin DOMAIN last.args =>
                    DictOf(to_dict(Heap, 1, FALSE, FALSE).dct)[name] =
                        IF FieldTable[f].value_arg # None THEN FieldTable[f].value_arg
                        ELSE FieldTable[f].default

\* C18: validate() calls every validator with the validated config object
\* as its first argument, for Constant and Derivable fields alike.
C18_ValidatorSelf ==
    last.op = "validate" =>
        \A i \in DOMAIN last.calls : last.calls[i].self_arg = ObjectArg(last.obj)

(***************************************************************************)
(* C16.  get_json_value.                                                   *)
(***************************************************************************)
\* The value the segments reach through nested objects, when each segment
\* is a key of the object reached so far.
RECURSIVE Walk(_, _)
Walk(val, segs) ==
    IF segs = <<>> THEN [reached |-> TRUE, val |-> val]
    ELSE IF val.type = "dict" /\ Head(segs) \in DOMAIN val.items
         THEN Walk(val.items[Head(segs)], Tail(segs))
    ELSE [reached |-> FALSE, val |-> JsonNull]

\* C16: the path gives the same outcome with and without the leading "$.";
\* the value its segments reach is returned, and a segment that reaches
\* nothing raises ValueError and no other error.
C16_JsonPath ==
    path_result # PathNotCalled =>
        LET w == Walk(path_args.data, Split(path_args.json_path, Dot))
        IN  /\ get_json_value(path_args.data, Dollar \o path_args.json_path)
                 = get_json_value(path_args.data, path_args.json_path)
            /\ IF w.reached
               THEN path_result = [err |-> "none", val |-> w.val]
               ELSE path_result.err = "ValueError"

====
